---- MODULE Spec2Model ----
(***************************************************************************)
(* Model of geomagnetic_dashboard.py: one Streamlit script run (Render)    *)
(* per page load, three cached fetch functions, the Kp block view, the     *)
(* storm table and the alert list.                                         *)
(*                                                                         *)
(* Units: instants are whole seconds since day 0, 00:00:00 UTC; a datetime *)
(* additionally carries its microsecond field.  Kp values are tenths       *)
(* (Kp 4.9 is 49); a mean is the exact rational num/den.                   *)
(***************************************************************************)
EXTENDS Integers, Sequences, FiniteSets

\* ------------------------------------------------------------------ bounds
MaxTicks == 2
LastSlot == 18
MaxReadings == 3
MaxStormRows == 2
TickSeconds == 300
StartDay == 2

\* ------------------------------------------------------- program constants
TTL == 600
IstOffsetSeconds == 19800
HourSeconds == 3600
MinuteSeconds == 60
DaySeconds == 86400
MicrosPerSecond == 1000000
BlockHours == 3
HoursPerDay == 24
WindowSeconds == 86400
ResampleSeconds == 10800
TailRows == 8
HeadRows == 5
KpScale == 10

Feeds == {"kp", "alerts", "storm"}
TzOptions == {"IST (Asia/Kolkata)", "UTC"}
FailureKinds == {"timeout", "http_error", "bad_json", "missing_column"}

\* ------------------------------------------------------------ small helpers
Min(a, b) == IF a <= b THEN a ELSE b

\* line 26: tz = "Asia/Kolkata" if "IST" in tz_option else "UTC"
Tz(option) == IF option = "IST (Asia/Kolkata)" THEN "Asia/Kolkata" ELSE "UTC"

\* UTC offset of a zone name, in seconds (Asia/Kolkata is +05:30, no DST)
UtcOffset(zone) == IF zone = "Asia/Kolkata" THEN IstOffsetSeconds ELSE 0

\* ---------------------------------------------------------------- datetime
\* A datetime.datetime: calendar day number, wall-clock fields, utcoffset.
DateTime(d, h, m, s, us, off) ==
    [day |-> d, hour |-> h, minute |-> m, second |-> s, microsecond |-> us,
     utcoffset |-> off]

\* wall-clock seconds since day 0, 00:00 in the datetime's own zone
WallSeconds(dt) ==
    dt.day * DaySeconds + dt.hour * HourSeconds + dt.minute * MinuteSeconds + dt.second

\* the instant (UTC seconds) of an aware datetime
EpochSeconds(dt) == WallSeconds(dt) - dt.utcoffset

FromWall(w, us, off) ==
    DateTime(w \div DaySeconds, (w % DaySeconds) \div HourSeconds,
             (w % HourSeconds) \div MinuteSeconds, w % MinuteSeconds, us, off)

\* datetime.astimezone(timezone(timedelta(seconds=off)))
astimezone(dt, off) == FromWall(EpochSeconds(dt) + off, dt.microsecond, off)

\* lines 27-28: now as shown in the selected zone
ResolveNow(utc, zone) ==
    IF zone = "Asia/Kolkata" THEN astimezone(utc, IstOffsetSeconds) ELSE utc

\* rounding up, which leaves an hour that is on a boundary where it is
NextHourNoAdvance(hour) == ((hour + BlockHours - 1) \div BlockHours) * BlockHours

\* line 32
NextHour(hour) == ((hour \div BlockHours) + 1) * BlockHours

\* lines 31-38
next_forecast_block(now_time) ==
    LET next_hour == NextHour(now_time.hour)
        next_block_time == [now_time EXCEPT !.minute = 0, !.second = 0,
                                            !.microsecond = 0]
    IN  IF next_hour < HoursPerDay
        THEN [next_block_time EXCEPT !.hour = next_hour]
        ELSE [next_block_time EXCEPT !.day = @ + 1, !.hour = 0]

\* line 41: datetime - datetime, a timedelta normalised as Python does
\* (0 <= microseconds < 10^6); both operands carry the same utcoffset
TimeDelta(a, b) ==
    LET secs == EpochSeconds(a) - EpochSeconds(b)
        us == a.microsecond - b.microsecond
    IN  IF us >= 0 THEN [seconds |-> secs, microseconds |-> us]
        ELSE [seconds |-> secs - 1, microseconds |-> us + MicrosPerSecond]

\* --------------------------------------------------------------- severity
\* A float: the rational num/den, or NaN when den = 0.  Every comparison
\* with NaN is false, as in Python.
Float(n, d) == [num |-> n, den |-> d]
NaN == Float(0, 0)
IsNaN(x) == x.den = 0
Tenths(k) == Float(k, KpScale)
FloatLe(x, n) == ~IsNaN(x) /\ x.num <= n * x.den
FloatLt(x, n) == ~IsNaN(x) /\ x.num < n * x.den
FloatEq(x, n) == ~IsNaN(x) /\ x.num = n * x.den
\* x <= y for two floats (false when either is NaN)
FloatLeq(x, y) == ~IsNaN(x) /\ ~IsNaN(y) /\ x.num * y.den <= y.num * x.den

\* lines 10-22
get_kp_level_color(kp) ==
    IF FloatLe(kp, 4) THEN "G0 (Quiet)"
    ELSE IF FloatEq(kp, 5) THEN "G1 (Minor)"
    ELSE IF FloatEq(kp, 6) THEN "G2 (Moderate)"
    ELSE IF FloatEq(kp, 7) THEN "G3 (Strong)"
    ELSE IF FloatEq(kp, 8) THEN "G4 (Severe)"
    ELSE "G5 (Extreme)"

\* line 119: background colour of a block
BlockColor(kp) == IF FloatLt(kp, 5) THEN "#4CAF50" ELSE "#F44336"

FloatGe(x, n) == ~IsNaN(x) /\ x.num >= n * x.den

\* int(k) of a non-negative float: truncation
IntOf(x) == x.num \div x.den

\* line 90: lambda k: f"G{min(int(k) - 4, 5)}"
GLevelNumber(k) == Min(IntOf(k) - 4, 5)

GLevel(k) == [n \in 1..5 |-> CASE n = 1 -> "G1" [] n = 2 -> "G2" [] n = 3 -> "G3"
                                [] n = 4 -> "G4" [] n = 5 -> "G5"][GLevelNumber(k)]

\* ------------------------------------------------------------ pandas cells
\* A raw JSON cell: the text of a timestamp, the text of a number, or
\* something that parses as neither.
IsoCell(secs) == [text |-> "iso", value |-> secs]
NumCell(k) == [text |-> "num", value |-> k]
JunkCell == [text |-> "junk", value |-> 0]

\* A pandas Timestamp: NaT, or an instant with the zone it is shown in.
NaT == [nat |-> TRUE, utc |-> 0, tz |-> "naive"]
Timestamp(secs, zone) == [nat |-> FALSE, utc |-> secs, tz |-> zone]

\* pd.to_datetime(col, errors="coerce"): a naive timestamp, or NaT
to_datetime(cell) ==
    IF cell.text = "iso" THEN Timestamp(cell.value, "naive") ELSE NaT

\* .dt.tz_localize("UTC"): the naive wall clock is read as UTC
tz_localize(ts, zone) ==
    IF ts.nat THEN ts ELSE Timestamp(ts.utc - UtcOffset(zone), zone)

\* .dt.tz_convert(tz): same instant, shown in the other zone
tz_convert(ts, zone) == IF ts.nat THEN ts ELSE Timestamp(ts.utc, zone)

\* the wall-clock seconds a Timestamp shows
TsWall(ts) == ts.utc + UtcOffset(ts.tz)

\* pd.to_numeric(col, errors="coerce")
to_numeric(cell) == IF cell.text = "num" THEN Tenths(cell.value) ELSE NaN

\* lines 53, 70, 86: parse, localize to UTC, convert to the display zone
ParseTime(cell, zone) == tz_convert(tz_localize(to_datetime(cell), "UTC"), zone)

\* ------------------------------------------------------- fetch functions
\* an except clause for requests' own exceptions alone
ExceptRequestsOnly(err) == err \in {"timeout", "http_error"}

\* The except clause of each fetch function: "except Exception" catches
\* every failure kind.
ExceptException(err) == TRUE

\* What a fetch function hands back: a table, the empty table of its
\* except branch (failed), or an exception that leaves the function.
Returned(df) == [raised |-> FALSE, failed |-> FALSE, df |-> df]
Try(err, df) ==
    IF err = "none" THEN Returned(df)
    ELSE IF ExceptException(err)
         THEN [raised |-> FALSE, failed |-> TRUE, df |-> <<>>]
         ELSE [raised |-> TRUE, failed |-> TRUE, df |-> <<>>]

\* lines 46-58
fetch_kp_index(resp, zone) ==
    LET err == IF resp.status # "ok" THEN resp.status
               ELSE IF resp.data = <<>> THEN "missing_column" ELSE "none"
        df == [i \in DOMAIN resp.data |->
                 [time_tag |-> ParseTime(resp.data[i].time_tag, zone),
                  kp_index |-> to_numeric(resp.data[i].kp_index)]]
        keep(row) == ~row.time_tag.nat /\ ~IsNaN(row.kp_index)
    IN  Try(err, IF err = "none" THEN SelectSeq(df, keep) ELSE <<>>)

\* lines 61-74
fetch_alerts(resp, zone) ==
    LET err == IF resp.status # "ok" THEN resp.status
               ELSE IF resp.data = <<>> THEN "missing_column" ELSE "none"
        df == [i \in DOMAIN resp.data |->
                 [Issue_Time |-> ParseTime(resp.data[i].issue_datetime, zone),
                  Alert_Type |-> resp.data[i].product_id,
                  Message |-> resp.data[i].message]]
        keep(row) == ~row.Issue_Time.nat
    IN  Try(err, IF err = "none" THEN SelectSeq(df, keep) ELSE <<>>)

\* position of a column name in the header row; 0 when absent (KeyError)
ColumnIndex(header, name) ==
    IF \E i \in DOMAIN header : header[i] = name
    THEN CHOOSE i \in DOMAIN header : header[i] = name
    ELSE 0

\* sort_values(col, ascending=False) by insertion, on rows paired with their
\* sort key: rows with equal keys keep their order
RECURSIVE SortKeyed(_)
SortKeyed(keyed) ==
    IF keyed = <<>> THEN <<>>
    ELSE LET rest == SortKeyed(Tail(keyed))
             k == Head(keyed).key
             ahead == SelectSeq(rest, LAMBDA r : r.key > k)
             behind == SelectSeq(rest, LAMBDA r : r.key <= k)
         IN  ahead \o <<Head(keyed)>> \o behind

SortDescending(df, column) ==
    LET keyed == [i \in DOMAIN df |-> [key |-> df[i][column].utc, row |-> df[i]]]
        sorted == SortKeyed(keyed)
    IN  [i \in DOMAIN sorted |-> sorted[i].row]

\* a filter that leaves Kp 5.0 itself out
StormFilterStrict(kp) == ~IsNaN(kp) /\ kp.num > 5 * kp.den

\* line 89
StormFilter(kp) == FloatGe(kp, 5)

\* lines 77-94
fetch_geomag_activity(resp, zone) ==
    LET header == resp.data[1]
        t == ColumnIndex(header, "time_tag")
        k == ColumnIndex(header, "Kp")
        err == IF resp.status # "ok" THEN resp.status
               ELSE IF resp.data = <<>> THEN "empty_table"
               ELSE IF t = 0 \/ k = 0 THEN "missing_column" ELSE "none"
        body == Tail(resp.data)
        df == [i \in DOMAIN body |->
                 [time_tag |-> ParseTime(body[i][t], zone),
                  Kp |-> to_numeric(body[i][k])]]
        keep(row) == ~row.time_tag.nat /\ ~IsNaN(row.Kp) /\ StormFilter(row.Kp)
        storms == SelectSeq(df, keep)
        labelled == [i \in DOMAIN storms |->
                       [time_tag |-> storms[i].time_tag, Kp |-> storms[i].Kp,
                        G_Level |-> GLevel(storms[i].Kp)]]
    IN  Try(err, IF err = "none"
                 THEN SortDescending(labelled, "time_tag")
                 ELSE <<>>)

\* ------------------------------------------------------------ Kp block view
\* line 108: time_tag > now - timedelta(hours=24); a Timestamp has no
\* sub-second part, now may have one
InWindow(ts, now_time) ==
    LET edge == EpochSeconds(now_time) - WindowSeconds
    IN  ts.utc > edge \/ (ts.utc = edge /\ 0 > now_time.microsecond)

RECURSIVE SumKp(_)
SumKp(rows) == IF rows = <<>> THEN 0 ELSE Head(rows).kp_index.num + SumKp(Tail(rows))

\* .mean() of one bin: NaN for a bin without rows
Mean(rows) == IF rows = <<>> THEN NaN ELSE Float(SumKp(rows), KpScale * Len(rows))

\* the 3-hour bin a Timestamp falls in: bins are cut on the wall clock of the
\* column's zone, from midnight
BinOf(ts) == TsWall(ts) \div ResampleSeconds

BinRows(rows, b) == SelectSeq(rows, LAMBDA r : BinOf(r.time_tag) = b)

\* .set_index("time_tag").resample("3H").mean(): one row per bin from the
\* bin of the earliest row to the bin of the latest, empty bins included
Resample(rows) ==
    IF rows = <<>> THEN <<>>
    ELSE LET zone == rows[1].time_tag.tz
             bins == {BinOf(rows[i].time_tag) : i \in DOMAIN rows}
             first == CHOOSE b \in bins : \A c \in bins : b <= c
             last == CHOOSE b \in bins : \A c \in bins : c <= b
         IN  [i \in 1..(last - first + 1) |->
                [time_tag |-> Timestamp((first + i - 1) * ResampleSeconds
                                           - UtcOffset(zone), zone),
                 kp_index |-> Mean(BinRows(rows, first + i - 1))]]

\* .reset_index(): the rows get the labels 0..n-1
ResetIndex(df) ==
    [i \in DOMAIN df |-> [index |-> i - 1, time_tag |-> df[i].time_tag,
                          kp_index |-> df[i].kp_index]]

\* .tail(8): the last rows, with the labels they had
TailDf(df) ==
    IF Len(df) <= TailRows THEN df ELSE SubSeq(df, Len(df) - TailRows + 1, Len(df))

\* lines 108-109
KpHourly(df, now_time) ==
    TailDf(ResetIndex(Resample(SelectSeq(df, LAMBDA r : InWindow(r.time_tag, now_time)))))

\* line 117: block_cols[idx] raises IndexError when idx is no position of
\* block_cols.  The position in kp_hourly of the first such row, 0 if none.
FirstBadColumn(hourly, ncols) ==
    IF \E i \in DOMAIN hourly : hourly[i].index >= ncols
    THEN CHOOSE i \in DOMAIN hourly :
            /\ hourly[i].index >= ncols
            /\ \A j \in 1..(i - 1) : hourly[j].index < ncols
    ELSE 0

\* lines 114-124: one rendered status block
Block(row) ==
    [column |-> row.index, time_tag |-> row.time_tag, kp |-> row.kp_index,
     level |-> get_kp_level_color(row.kp_index), color |-> BlockColor(row.kp_index)]

\* line 142: alerts_df.sort_values("Issue Time", ascending=False).head(5)
TopAlerts(df) ==
    LET sorted == SortDescending(df, "Issue_Time")
    IN  SubSeq(sorted, 1, Min(HeadRows, Len(sorted)))

\* ------------------------------------------------------------------- state
VARIABLES
    tz_option,      \* the radio's value in the last run (line 25)
    now_utc,        \* the wall clock, as an aware UTC datetime (line 27)
    upstream,       \* what each NOAA endpoint answers right now
    cache,          \* st.cache_data: one entry per fetch function
    now, next_block, countdown,          \* lines 28, 40, 41
    kp_df, alerts_df, storm_df,          \* lines 97-99
    fetch_log,      \* per feed: where the last run's table came from
    kp_hourly, block_cols, col_access, blocks,      \* lines 109-124
    kp_section, storm_section, alerts_section, alerts_shown,
    script, error   \* how the last run ended

vars == <<tz_option, now_utc, upstream, cache, now, next_block, countdown,
          kp_df, alerts_df, storm_df, fetch_log, kp_hourly, block_cols,
          col_access, blocks, kp_section, storm_section, alerts_section,
          alerts_shown, script, error>>

page == <<tz_option, now, next_block, countdown, kp_df, alerts_df, storm_df,
          fetch_log, kp_hourly, block_cols, col_access, blocks, kp_section,
          storm_section, alerts_section, alerts_shown, script, error>>

Ok(data) == [status |-> "ok", data |-> data]
Failed(kind) == [status |-> kind, data |-> <<>>]

NoEntry == [present |-> FALSE, failed |-> FALSE, df |-> <<>>, stored_at |-> 0]

\* @st.cache_data(ttl=600) on a function without parameters: the entry is
\* found by the function alone and is served while younger than ttl
CacheHit(entry, t) == entry.present /\ t - entry.stored_at < TTL

Fetch(f, resp, zone) ==
    CASE f = "kp" -> fetch_kp_index(resp, zone)
      [] f = "alerts" -> fetch_alerts(resp, zone)
      [] f = "storm" -> fetch_geomag_activity(resp, zone)

\* one call of a cached fetch function at instant t
CachedCall(f, t, zone) ==
    IF CacheHit(cache[f], t)
    THEN [raised |-> FALSE, failed |-> cache[f].failed, df |-> cache[f].df]
    ELSE Fetch(f, upstream[f], zone)

\* ------------------------------------------------------------------ inputs
StartNow == DateTime(StartDay, 10, 0, 0, 0, 0)
StartEpoch == EpochSeconds(StartNow)

KpRow(secs, k) == [time_tag |-> IsoCell(secs), kp_index |-> NumCell(k)]
AlertRow(cell, n) == [issue_datetime |-> cell, product_id |-> "ALTK04", message |-> n]
StormHeader == <<"time_tag", "Kp">>

\* the feeds of the dashboard's everyday run: recent readings, one row that
\* does not parse in each feed
EverydayFeed(f) ==
    CASE f = "kp" ->
           <<KpRow(StartEpoch - 3600, 30),
             [time_tag |-> JunkCell, kp_index |-> NumCell(40)],
             KpRow(StartEpoch - 1800, 40)>>
      [] f = "alerts" ->
           <<AlertRow(IsoCell(StartEpoch - 7200), 1), AlertRow(JunkCell, 2),
             AlertRow(IsoCell(StartEpoch - 600), 3)>>
      [] f = "storm" ->
           <<StormHeader, <<IsoCell(StartEpoch - 10800), NumCell(67)>>,
             <<IsoCell(StartEpoch - 21600), NumCell(30)>>>>

\* six alerts, two of them issued at the same second, and one without a
\* parseable issue time
ManyAlerts ==
    <<AlertRow(IsoCell(StartEpoch - 7200), 1), AlertRow(IsoCell(StartEpoch - 600), 2),
      AlertRow(JunkCell, 3), AlertRow(IsoCell(StartEpoch - 600), 4),
      AlertRow(IsoCell(StartEpoch - 86400), 5), AlertRow(IsoCell(StartEpoch - 300), 6),
      AlertRow(IsoCell(StartEpoch - 900), 7)>>

\* ------------------------------------------------------------------ actions
\* One run of the script, top to bottom (lines 25-150), with the radio at opt.
\* An exception that leaves a fetch function or a section ends the run there.
Render(opt) ==
    LET zone == Tz(opt)
        t == EpochSeconds(now_utc)
        rk == CachedCall("kp", t, zone)
        ra == CachedCall("alerts", t, zone)
        rs == CachedCall("storm", t, zone)
        ran == [f \in Feeds |->
                  CASE f = "kp" -> TRUE
                    [] f = "alerts" -> ~rk.raised
                    [] f = "storm" -> ~rk.raised /\ ~ra.raised]
        res == [f \in Feeds |->
                  CASE f = "kp" -> rk [] f = "alerts" -> ra [] f = "storm" -> rs]
        fetched == ran["storm"] /\ ~rs.raised
    IN  /\ tz_option' = opt
        /\ now' = ResolveNow(now_utc, zone)
        /\ next_block' = next_forecast_block(now')
        /\ countdown' = TimeDelta(next_block', now')
        /\ kp_df' = rk.df
        /\ alerts_df' = IF ran["alerts"] THEN ra.df ELSE <<>>
        /\ storm_df' = IF ran["storm"] THEN rs.df ELSE <<>>
        /\ fetch_log' =
              [f \in Feeds |->
                 [source |-> IF ~ran[f] THEN "none"
                             ELSE IF CacheHit(cache[f], t) THEN "cache" ELSE "network",
                  failed |-> ran[f] /\ res[f].failed,
                  raised |-> ran[f] /\ res[f].raised]]
        /\ cache' =
              [f \in Feeds |->
                 IF ran[f] /\ ~CacheHit(cache[f], t) /\ ~res[f].raised
                 THEN [present |-> TRUE, failed |-> res[f].failed,
                       df |-> res[f].df, stored_at |-> t]
                 ELSE cache[f]]
        \* lines 107-126
        /\ kp_hourly' = IF fetched /\ kp_df' # <<>> THEN KpHourly(kp_df', now') ELSE <<>>
        /\ block_cols' = Len(kp_hourly')
        /\ LET bad == FirstBadColumn(kp_hourly', block_cols')
               last == IF bad = 0 THEN Len(kp_hourly') ELSE bad
           IN  /\ col_access' = [i \in 1..last |-> kp_hourly'[i].index]
               /\ blocks' = [i \in 1..(IF bad = 0 THEN last ELSE bad - 1) |->
                                Block(kp_hourly'[i])]
               /\ error' = IF ~fetched THEN "fetch exception"
                            ELSE IF kp_df' = <<>> THEN "none"
                            ELSE IF block_cols' = 0 THEN "StreamlitAPIException"
                            ELSE IF bad # 0 THEN "IndexError"
                            ELSE "none"
        /\ kp_section' = IF ~fetched THEN "not rendered"
                          ELSE IF kp_df' = <<>> THEN "no data"
                          ELSE IF error' # "none" THEN "exception"
                          ELSE "blocks"
        \* lines 130-136
        /\ storm_section' = IF error' # "none" THEN "not rendered"
                             ELSE IF storm_df' = <<>> THEN "no data" ELSE "table"
        \* lines 141-148
        /\ alerts_section' = IF error' # "none" THEN "not rendered"
                              ELSE IF alerts_df' = <<>> THEN "no data" ELSE "alerts"
        /\ alerts_shown' = IF alerts_section' = "alerts" THEN TopAlerts(alerts_df')
                            ELSE <<>>
        /\ script' = IF error' = "none" THEN "completed" ELSE "exception"
        /\ UNCHANGED <<now_utc, upstream>>

\* time passes
Tick ==
    /\ EpochSeconds(now_utc) < StartEpoch + MaxTicks * TickSeconds
    /\ now_utc' = FromWall(WallSeconds(now_utc) + TickSeconds, now_utc.microsecond, 0)
    /\ UNCHANGED <<upstream, cache, page>>

\* an endpoint starts failing in one of the four ways, or recovers
UpstreamChange(f) ==
    /\ \E r \in {Ok(EverydayFeed(f))} \cup {Failed(k) : k \in FailureKinds} :
          /\ r # upstream[f]
          /\ upstream' = [upstream EXCEPT ![f] = r]
    /\ UNCHANGED <<now_utc, cache, page>>

\* the state before the first run: nothing fetched, nothing rendered
NotRun ==
    /\ tz_option = "IST (Asia/Kolkata)"
    /\ cache = [f \in Feeds |-> NoEntry]
    /\ now = StartNow /\ next_block = StartNow
    /\ countdown = [seconds |-> 0, microseconds |-> 0]
    /\ kp_df = <<>> /\ alerts_df = <<>> /\ storm_df = <<>>
    /\ fetch_log = [f \in Feeds |-> [source |-> "none", failed |-> FALSE, raised |-> FALSE]]
    /\ kp_hourly = <<>> /\ block_cols = 0 /\ col_access = <<>> /\ blocks = <<>>
    /\ kp_section = "not rendered" /\ storm_section = "not rendered"
    /\ alerts_section = "not rendered" /\ alerts_shown = <<>>
    /\ script = "not run" /\ error = "none"

Init ==
    /\ now_utc = StartNow
    /\ upstream = [f \in Feeds |-> Ok(EverydayFeed(f))]
    /\ NotRun

Next ==
    \/ \E opt \in TzOptions : Render(opt)
    \/ Tick
    \/ \E f \in Feeds : UpstreamChange(f)

Spec == Init /\ [][Next]_vars

\* --------------------------------------------- the block view on any readings
\* Readings every 90 minutes at most, from 06:00 of the day before to 09:00
\* of the day of the run; the run is at 09:00 (a block boundary) or 10:00.
SlotSeconds == ResampleSeconds \div 2
SlotTime(k) == (StartDay - 1) * DaySeconds + 6 * HourSeconds + k * SlotSeconds
BlockKps == {40, 50}
BlockNows == {DateTime(StartDay, 9, 0, 0, 0, 0), DateTime(StartDay, 10, 0, 0, 0, 0)}

\* lists of n (slot, kp) pairs with strictly rising slots
RECURSIVE RisingLists(_)
RisingLists(n) ==
    IF n = 0 THEN {<<>>}
    ELSE LET Cells == (0..LastSlot) \X BlockKps
             Fits(l, c) == l = <<>> \/ l[Len(l)][1] < c[1]
         IN  {Append(p[1], p[2]) :
                p \in {q \in RisingLists(n - 1) \X Cells : Fits(q[1], q[2])}}

\* the 1-minute feed lists its readings oldest first: up to n readings
KpFeeds(n) ==
    {[i \in DOMAIN l |-> KpRow(SlotTime(l[i][1]), l[i][2])] :
        l \in UNION {RisingLists(k) : k \in 0..n}}

InitBlocks ==
    /\ now_utc \in BlockNows
    /\ \E feed \in KpFeeds(MaxReadings) :
          upstream = [f \in Feeds |->
                        IF f = "kp" THEN Ok(feed)
                        ELSE IF f = "alerts" THEN Ok(ManyAlerts)
                        ELSE Ok(EverydayFeed(f))]
    /\ NotRun

NextBlocks == \E opt \in TzOptions : Render(opt)

SpecBlocks == InitBlocks /\ [][NextBlocks]_vars

\* ------------------------------------------------ the countdown at any instant
ClockMinutes == {0, 1, 30, 59}
ClockSeconds == {0, 1, 59}
ClockMicros == {0, 1, 999999}

InitClock ==
    /\ now_utc \in {DateTime(StartDay, h, m, sec, us, 0) :
                       h \in 0..(HoursPerDay - 1), m \in ClockMinutes,
                       sec \in ClockSeconds, us \in ClockMicros}
    /\ upstream = [f \in Feeds |-> Ok(EverydayFeed(f))]
    /\ NotRun

NextClock == \E opt \in TzOptions : Render(opt)

SpecClock == InitClock /\ [][NextClock]_vars

\* ------------------------------------------------- the storm table on any feed
StormKps == {49, 50, 60, 70, 80, 99}
TimeCells == {JunkCell, IsoCell(StartEpoch - 10800), IsoCell(StartEpoch - 21600)}
NumCells == {JunkCell} \cup {NumCell(k) : k \in StormKps}
OtherHeaders == {<<"Kp", "time_tag">>, <<"time_tag", "a_running">>}

CellsFor(name) == IF name = "time_tag" THEN TimeCells ELSE NumCells

\* the feeds with header row h and up to n data rows
StormTables(h, n) ==
    {<<h>> \o body :
        body \in UNION {[1..k -> CellsFor(h[1]) \X CellsFor(h[2])] : k \in 0..n}}

\* no rows at all; the usual header with up to n data rows; the columns
\* swapped, or no Kp column, with up to n - 1 data rows
StormFeeds(n) ==
    {<<>>} \cup StormTables(StormHeader, n)
           \cup UNION {StormTables(h, n - 1) : h \in OtherHeaders}

InitStorm ==
    /\ now_utc = StartNow
    /\ \E feed \in StormFeeds(MaxStormRows) :
          upstream = [f \in Feeds |->
                        IF f = "storm" THEN Ok(feed) ELSE Ok(EverydayFeed(f))]
    /\ NotRun

NextStorm == \E opt \in TzOptions : Render(opt)

SpecStorm == InitStorm /\ [][NextStorm]_vars

\* ================================================================== claims
HasRun == script # "not run"

\* a step of Render: the only action that leaves the clock and the endpoints alone
RenderStep == upstream' = upstream /\ now_utc' = now_utc

Table(f) == CASE f = "kp" -> kp_df [] f = "alerts" -> alerts_df [] f = "storm" -> storm_df

RowTime(f, row) == IF f = "alerts" THEN row.Issue_Time ELSE row.time_tag

\* C1: after every run, every timestamp of the three fetched tables is shown
\* in the zone the radio selected for that run, also when the run switched
\* zones while the cached tables were younger than 600 seconds.
C1_TimestampsInSelectedZone ==
    HasRun =>
        \A f \in Feeds : \A i \in DOMAIN Table(f) :
            RowTime(f, Table(f)[i]).tz = Tz(tz_option)

Rank(level) ==
    CASE level = "G0 (Quiet)" -> 0 [] level = "G1 (Minor)" -> 1
      [] level = "G2 (Moderate)" -> 2 [] level = "G3 (Strong)" -> 3
      [] level = "G4 (Severe)" -> 4 [] level = "G5 (Extreme)" -> 5

\* C2: over the bucket means the status blocks pass to get_kp_level_color,
\* the level is monotonic: a block with the smaller mean never gets the
\* higher G-level, a mean of at most 4 gets G0, and G5 is given only to a
\* mean of at least 9.
C2_LevelMonotonic ==
    \A i \in DOMAIN blocks :
        ~IsNaN(blocks[i].kp) =>
            /\ FloatLe(blocks[i].kp, 4) => Rank(blocks[i].level) = 0
            /\ Rank(blocks[i].level) = 5 => FloatGe(blocks[i].kp, 9)
            /\ \A j \in DOMAIN blocks :
                  FloatLeq(blocks[i].kp, blocks[j].kp)
                      => Rank(blocks[i].level) <= Rank(blocks[j].level)

\* C3: in every run, no exception leaves a fetch function; a feed whose
\* retrieval failed gives the empty table; and the table of every feed that
\* was retrieved is the one its own response determines, whatever happened
\* to the other two feeds.
C3_FailuresAreContained ==
    [][RenderStep =>
         /\ error' # "fetch exception"
         /\ \A f \in Feeds :
               /\ ~fetch_log'[f].raised
               /\ fetch_log'[f].source = "network" =>
                     /\ upstream[f].status # "ok" => Table(f)' = <<>>
                     /\ Table(f)' = Fetch(f, upstream[f], Tz(tz_option')).df]_vars

\* C3 witness: a run retrieved all three feeds, one retrieval failed with
\* malformed JSON, another with a missing column, and the third feed's table
\* has its rows.
C3_OneFeedDownOthersServed ==
    /\ script = "completed"
    /\ \A f \in Feeds : fetch_log[f].source = "network"
    /\ upstream["alerts"].status = "bad_json" /\ fetch_log["alerts"].failed
    /\ upstream["storm"].status = "missing_column" /\ fetch_log["storm"].failed
    /\ alerts_df = <<>> /\ storm_df = <<>>
    /\ ~fetch_log["kp"].failed /\ Len(kp_df) = 2

\* the readings of the fetched Kp table inside the trailing 24 hours
KpRecent == SelectSeq(kp_df, LAMBDA r : InWindow(r.time_tag, now))

\* C4: a run in which a section has no usable rows completes without an
\* exception and shows that section's no-data message; for the Kp blocks,
\* "no usable rows" is no reading inside the trailing 24 hours.
C4_EmptySectionsShowNoData ==
    HasRun =>
        /\ KpRecent = <<>> => script = "completed" /\ kp_section = "no data"
        /\ storm_df = <<>> => script = "completed" /\ storm_section = "no data"
        /\ alerts_df = <<>> => script = "completed" /\ alerts_section = "no data"

\* an instant, comparable lexicographically: wall-clock seconds, microseconds
Later(a, b) ==
    \/ WallSeconds(a) > WallSeconds(b)
    \/ WallSeconds(a) = WallSeconds(b) /\ a.microsecond > b.microsecond

\* C5: next_block is on a 3-hour boundary (hour in 0,3,..,21, minute, second
\* and microsecond zero), strictly after now, with no boundary in between;
\* the countdown is next_block - now, greater than zero and at most 3 hours.
C5_NextBlockIsNextBoundary ==
    HasRun =>
        /\ next_block.hour \in {0, 3, 6, 9, 12, 15, 18, 21}
        /\ next_block.minute = 0 /\ next_block.second = 0
        /\ next_block.microsecond = 0
        /\ next_block.utcoffset = now.utcoffset
        /\ Later(next_block, now)
        /\ WallSeconds(next_block) - 3 * HourSeconds <= WallSeconds(now)
        /\ now.hour >= 21 => next_block.day = now.day + 1 /\ next_block.hour = 0
        /\ countdown =
              IF now.microsecond = 0
              THEN [seconds |-> WallSeconds(next_block) - WallSeconds(now),
                    microseconds |-> 0]
              ELSE [seconds |-> WallSeconds(next_block) - WallSeconds(now) - 1,
                    microseconds |-> MicrosPerSecond - now.microsecond]
        /\ countdown.seconds > 0 \/ countdown.microseconds > 0
        /\ \/ countdown.seconds < 3 * HourSeconds
           \/ countdown.seconds = 3 * HourSeconds /\ countdown.microseconds = 0

\* C5 witness: a run at exactly 21:00:00.000000 in the display zone: the
\* next block is 00:00 of the next day, a full 3 hours away.
C5_BoundaryAtLastBlock ==
    /\ HasRun
    /\ now.hour = 21 /\ now.minute = 0 /\ now.second = 0 /\ now.microsecond = 0
    /\ next_block.day = now.day + 1 /\ next_block.hour = 0
    /\ countdown = [seconds |-> 3 * HourSeconds, microseconds |-> 0]

\* the readings behind one row of kp_hourly
Constituents(bucket) ==
    SelectSeq(KpRecent, LAMBDA r : /\ r.time_tag.utc >= bucket.time_tag.utc
                                   /\ r.time_tag.utc < bucket.time_tag.utc + ResampleSeconds)

\* C6: the block series has at most 8 rows, in chronological order, and
\* every row has at least one reading behind it and a mean between the
\* smallest and the largest kp of those readings.
C6_BucketsBoundedOrderedBacked ==
    (HasRun /\ kp_df # <<>>) =>
        /\ Len(kp_hourly) <= 8
        /\ \A i \in 1..(Len(kp_hourly) - 1) :
              kp_hourly[i].time_tag.utc < kp_hourly[i + 1].time_tag.utc
        /\ \A i \in DOMAIN kp_hourly :
              LET rows == Constituents(kp_hourly[i])
              IN  /\ rows # <<>>
                  /\ \E lo \in DOMAIN rows : FloatLeq(rows[lo].kp_index, kp_hourly[i].kp_index)
                  /\ \E hi \in DOMAIN rows : FloatLeq(kp_hourly[i].kp_index, rows[hi].kp_index)

\* the storm feed as the endpoint serves it, and its two used columns
StormRaw == upstream["storm"].data
TimeColumn == ColumnIndex(StormRaw[1], "time_tag")
KpColumn == ColumnIndex(StormRaw[1], "Kp")

\* the data rows (the header is row 1) whose time_tag and Kp both parse and
\* whose Kp is at least 5.0
StormRows ==
    IF StormRaw = <<>> \/ TimeColumn = 0 \/ KpColumn = 0 THEN {}
    ELSE {i \in 2..Len(StormRaw) :
            /\ StormRaw[i][TimeColumn].text = "iso"
            /\ StormRaw[i][KpColumn].text = "num"
            /\ StormRaw[i][KpColumn].value >= 50}

LevelByRange(k) ==
    CASE k \in 50..59 -> "G1" [] k \in 60..69 -> "G2" [] k \in 70..79 -> "G3"
      [] k \in 80..89 -> "G4" [] k \in 90..99 -> "G5"

\* table row `row` is data row i: same instant, same Kp, the G Level of
\* the range Kp lies in
IsStormRow(row, i) ==
    /\ row.time_tag.utc = StormRaw[i][TimeColumn].value
    /\ row.Kp = Float(StormRaw[i][KpColumn].value, 10)
    /\ row.G_Level = LevelByRange(StormRaw[i][KpColumn].value)

\* C7: the storm table holds exactly the data rows whose time_tag and Kp
\* parse and whose Kp >= 5 (as many table rows as such data rows, each data
\* row as often as the feed has it), each with G1 for [5,6), G2 for [6,7),
\* G3 for [7,8), G4 for [8,9), G5 for [9,10).
C7_StormTableExact ==
    HasRun =>
        /\ Len(storm_df) = Cardinality(StormRows)
        /\ \A j \in DOMAIN storm_df : \E i \in StormRows : IsStormRow(storm_df[j], i)
        /\ \A i \in StormRows :
              Cardinality({j \in DOMAIN storm_df : IsStormRow(storm_df[j], i)})
                = Cardinality({h \in StormRows :
                                 /\ StormRaw[h][TimeColumn] = StormRaw[i][TimeColumn]
                                 /\ StormRaw[h][KpColumn] = StormRaw[i][KpColumn]})

\* C7 witness: the feed has a row with Kp 4.9 and a row with Kp 5.0, both
\* with a time_tag that parses; the table has the 5.0 row alone, as G1.
C7_FiveIncludedBelowExcluded ==
    /\ HasRun
    /\ Len(StormRaw) = 3 /\ TimeColumn # 0 /\ KpColumn # 0
    /\ StormRaw[2][TimeColumn].text = "iso" /\ StormRaw[2][KpColumn] = NumCell(49)
    /\ StormRaw[3][TimeColumn].text = "iso" /\ StormRaw[3][KpColumn] = NumCell(50)
    /\ Len(storm_df) = 1
    /\ storm_df[1].Kp = Float(50, 10) /\ storm_df[1].G_Level = "G1"

\* C8: a run that starts with a failed fetch's empty table in the cache,
\* while the endpoint has recovered, returns the feed's rows and not the
\* earlier empty table.
C8_FailureRetriedOnNextRun ==
    [][RenderStep =>
         \A f \in Feeds :
            (cache[f].present /\ cache[f].failed /\ upstream[f].status = "ok") =>
                /\ fetch_log'[f].source = "network"
                /\ Table(f)' = Fetch(f, upstream[f], Tz(tz_option')).df]_vars

\* the alerts feed as the endpoint serves it
AlertsRaw == upstream["alerts"].data
ParsedAlerts == {i \in DOMAIN AlertsRaw : AlertsRaw[i].issue_datetime.text = "iso"}

\* C9: the alerts table keeps every row whose issue time parses, and only
\* those; the alert section shows min(5, rows kept) alerts, and no alert left
\* out was issued later than one that is shown.
C9_AlertsKeptAndTopFiveShown ==
    (HasRun /\ ~fetch_log["alerts"].failed) =>
        /\ Len(alerts_df) = Cardinality(ParsedAlerts)
        /\ \A i \in ParsedAlerts : \E j \in DOMAIN alerts_df :
              /\ alerts_df[j].Message = AlertsRaw[i].message
              /\ alerts_df[j].Issue_Time.utc = AlertsRaw[i].issue_datetime.value
        /\ Len(alerts_shown) = Min(5, Len(alerts_df))
        /\ \A j \in DOMAIN alerts_df :
              (\A k \in DOMAIN alerts_shown : alerts_shown[k].Message # alerts_df[j].Message)
                  => \A k \in DOMAIN alerts_shown :
                        alerts_df[j].Issue_Time.utc <= alerts_shown[k].Issue_Time.utc

\* C10: every row label used to pick a column of the block view is a
\* position of block_cols, 0 .. len(kp_hourly) - 1.
C10_ColumnIndexInRange ==
    HasRun => \A i \in DOMAIN col_access : col_access[i] \in 0..(block_cols - 1)

====
